---- MODULE Spec2Model ----
(***************************************************************************)
(* A model of the market-data synchronisation scripts:                     *)
(*   fund_interest.py     BybitFuturesDataDownloader (cursor pagination)   *)
(*   bybit_daily.py       ByBitDataManager (incremental fetch, export)     *)
(*   fear_greed_index.py  FearGreedDownloader (download, 4-hour resample)  *)
(*                                                                         *)
(* Time is counted in hours since the Unix epoch (the source counts        *)
(* milliseconds; every quantity the source adds or compares is a whole     *)
(* number of hours in the runs explored here, and millisecond epochs do    *)
(* not fit the model checker's integers).  86400000 ms is Day = 24.        *)
(***************************************************************************)
EXTENDS Integers, Sequences, FiniteSets, TLC

VARIABLES
    \* ---- BybitFuturesDataDownloader.download_open_interest / _funding_rate
    pg_pc,        \* position: "request", "handle", "after", "returned", "raised"
    cursor,       \* local `cursor` (None, then the adopted nextPageCursor)
    all_data,     \* local `all_data`
    page,         \* local `page`: number of requests issued
    response,     \* the envelope of the last request (NoResponse before it)
    sent_cursor,  \* the cursor parameter of the last request (None: not sent)
    fetched,      \* history: records of every page served, in request order
    df,           \* the rows of the frame returned
    output_file   \* the csv written by the call (NoFile: not written)

pgvars == <<pg_pc, cursor, all_data, page, response, sent_cursor, fetched,
            df, output_file>>

VARIABLES
    \* ---- the environment of ByBitDataManager
    now,              \* the wall clock (hours since the epoch, UTC)
    tz,               \* the machine's UTC offset in hours (local = UTC + tz)
    hist_start,       \* the day of the upstream's first daily candle
    up_order,         \* how the upstream orders result.list
    up_keep,          \* which candles the upstream keeps when over `limit`
    \* ---- ByBitDataManager
    base_file,        \* the csv at self.base_file
    f_pc,             \* fetch: "idle", "loop", "done", "noop", "raised"
    f_error,          \* what the last fetch call raised ("none": nothing)
    latest_timestamp, \* fetch local (None when the store holds no row)
    current_time,     \* fetch local
    start_time,       \* fetch local
    end_time,         \* fetch local
    get_result,       \* outcome of the get call under way (NoGet: none)
    export,           \* the export csv written by the get call under way
    \* ---- history of the current fetch call
    pre_file,         \* base_file when the call began
    last_df,          \* the frame merged by the last write of the call
    requests,         \* kline requests issued by the call
    search,           \* the history search of the call (NoSearch: none ran)
    origin            \* base_file before the first of a run of failed calls
                      \* on this clock (set = FALSE: the last call did not fail)

envvars == <<now, tz, hist_start, up_order, up_keep>>
fetchvars == <<f_pc, f_error, latest_timestamp, current_time, start_time,
               end_time>>
histvars == <<pre_file, last_df, requests, search, origin>>
stvars == <<envvars, base_file, fetchvars, get_result, export, histvars>>

VARIABLES
    \* ---- FearGreedDownloader.download_fear_greed_index
    fg_pc,        \* position: "call", "returned", "raised"
    fg_data,      \* response.json()["data"] of the call
    fg_start,     \* local `start_time`
    fg_interval,  \* parameter `interval`
    fg_daily,     \* local `df` after drop_duplicates (the daily series)
    fg_df,        \* the rows of the frame returned
    fg_file       \* the csv written by the call (NoFile: not written)

fgvars == <<fg_pc, fg_data, fg_start, fg_interval, fg_daily, fg_df, fg_file>>

vars == <<pgvars, stvars, fgvars>>

None == "None"
NoTimestamp == -1       \* a timestamp that is None

\* A file that does not exist, and a file holding `rows` under its header.
NoFile == [exists |-> FALSE, rows |-> <<>>]
File(rows) == [exists |-> TRUE, rows |-> rows]

(***************************************************************************)
(* Bounds of the pagination model.                                         *)
(***************************************************************************)
MaxRounds == 3
MaxPageLen == 2

\* The raw records the upstream can put on a page (openInterest /
\* fundingRate rows reduced to their timestamp and value).
RawRecords == { [timestamp |-> 1, value |-> 1], [timestamp |-> 2, value |-> 2] }

\* nextPageCursor values; "" stands for an absent, null or empty cursor.
Cursors == {"c1", "c2"}
NextCursors == Cursors \cup {""}

SeqsUpTo(S, n) == UNION { [1..k -> S] : k \in 0..n }

Pages == SeqsUpTo(RawRecords, MaxPageLen)

\* One answer of requests.get: a transport failure (exception or HTTP
\* error status), an envelope with retCode != 0, or a result page.
Responses ==
    { [status |-> "transport", list |-> <<>>, nextPageCursor |-> ""],
      [status |-> "api",       list |-> <<>>, nextPageCursor |-> ""] }
    \cup
    { [status |-> "ok", list |-> p, nextPageCursor |-> c] :
          p \in Pages, c \in NextCursors }

NoResponse == [status |-> "none", list |-> <<>>, nextPageCursor |-> ""]

\* Python truthiness of a cursor value: None and "" are falsy.
Truthy(c) == c # None /\ c # ""

\* What the request carries: params["cursor"] only `if cursor:`.
CursorParam(c) == IF Truthy(c) THEN c ELSE None

\* all_data.extend(records)
Extend_Reversed(acc, records) ==
    acc \o [i \in 1..Len(records) |-> records[Len(records) + 1 - i]]
Extend(acc, records) == acc \o records

\* `if not next_cursor or next_cursor == cursor: break`
EndOfData_NoRepeatCheck(next_cursor, cur) == ~Truthy(next_cursor)
EndOfData(next_cursor, cur) == ~Truthy(next_cursor) \/ next_cursor = cur

\* A response after which the loop cannot continue.
Terminal(r, cur) ==
    \/ r.status # "ok"
    \/ r.list = <<>>
    \/ EndOfData(r.nextPageCursor, cur)

(***************************************************************************)
(* Frames: the pandas operations the scripts apply to their rows.          *)
(***************************************************************************)
Range(s) == { s[i] : i \in DOMAIN s }

TimestampsOf(s) == { s[i].timestamp : i \in DOMAIN s }

Min(a, b) == IF a <= b THEN a ELSE b
Max(a, b) == IF a >= b THEN a ELSE b

\* The index of the first row carrying each timestamp of rows[lo..hi].
RECURSIVE FirstIndex(_, _, _)
FirstIndex(rows, lo, hi) ==
    IF lo = hi THEN (rows[lo].timestamp :> lo)
    ELSE LET mid == (lo + hi) \div 2
         IN  FirstIndex(rows, lo, mid) @@ FirstIndex(rows, mid + 1, hi)

\* The numbers of S, all within lo..hi, in ascending order.
RECURSIVE Ascending(_, _, _)
Ascending(S, lo, hi) ==
    IF S = {} THEN <<>>
    ELSE IF lo = hi THEN <<lo>>
    ELSE LET mid == (lo + hi) \div 2
         IN  Ascending({x \in S : x <= mid}, lo, mid)
                 \o Ascending({x \in S : x > mid}, mid + 1, hi)

\* df['timestamp'].max() and .min() over rows[lo..hi].
RECURSIVE MaxTimestamp(_, _, _)
MaxTimestamp(rows, lo, hi) ==
    IF lo = hi THEN rows[lo].timestamp
    ELSE LET mid == (lo + hi) \div 2
         IN  Max(MaxTimestamp(rows, lo, mid), MaxTimestamp(rows, mid + 1, hi))

RECURSIVE MinTimestamp(_, _, _)
MinTimestamp(rows, lo, hi) ==
    IF lo = hi THEN rows[lo].timestamp
    ELSE LET mid == (lo + hi) \div 2
         IN  Min(MinTimestamp(rows, lo, mid), MinTimestamp(rows, mid + 1, hi))

\* drop_duplicates(subset=['timestamp']): the first row of each timestamp
\* stays, in the frame's order.
drop_duplicates_Unassigned(rows) == rows
drop_duplicates(rows) ==
    IF rows = <<>> THEN <<>>
    ELSE LET first == FirstIndex(rows, 1, Len(rows))
             keep  == Ascending({ first[t] : t \in DOMAIN first }, 1, Len(rows))
         IN  [i \in 1..Len(keep) |-> rows[keep[i]]]

\* sort_values('timestamp') of a frame whose timestamps are distinct, so
\* that the order of the result is determined.
sort_values(rows) ==
    IF rows = <<>> THEN <<>>
    ELSE LET first == FirstIndex(rows, 1, Len(rows))
             order == Ascending(DOMAIN first,
                                MinTimestamp(rows, 1, Len(rows)),
                                MaxTimestamp(rows, 1, Len(rows)))
         IN  [i \in 1..Len(order) |-> rows[first[order[i]]]]

\* The rows of `rows` carrying timestamp t other than the row at index
\* `lead`, in their order in the frame.
Behind(rows, t, lead) ==
    LET numbered == [i \in 1..Len(rows) |-> <<i, rows[i]>>]
        Keep(p)  == p[2].timestamp = t /\ p[1] # lead
        kept     == SelectSeq(numbered, Keep)
    IN  [k \in 1..Len(kept) |-> kept[k][2]]

\* The orders in which a sort may list the rows carrying the timestamps
\* order[k..], ascending: any row of a timestamp may come first, and the
\* rows behind it are listed in their order in the frame.
RECURSIVE TiedRuns(_, _, _)
TiedRuns(rows, order, k) ==
    IF k > Len(order) THEN { <<>> }
    ELSE { <<rows[lead]>> \o Behind(rows, order[k], lead) \o rest :
             lead \in { i \in DOMAIN rows : rows[i].timestamp = order[k] },
             rest \in TiedRuns(rows, order, k + 1) }

\* sort_values('timestamp') of a frame that may repeat timestamps.  The
\* sort is pandas' default (quicksort), which does not fix the order of
\* rows with equal timestamps.
SortOutcomes(rows) ==
    IF rows = <<>> THEN { <<>> }
    ELSE TiedRuns(rows,
                  Ascending(TimestampsOf(rows),
                            MinTimestamp(rows, 1, Len(rows)),
                            MaxTimestamp(rows, 1, Len(rows))),
                  1)

(***************************************************************************)
(* Normalisation after the loop: sort_values('timestamp') followed by      *)
(* drop_duplicates(subset=['timestamp']).                                  *)
(***************************************************************************)
Normalized(raw) == { drop_duplicates(s) : s \in SortOutcomes(raw) }

\* The store is not in use while the downloader runs, and the other way
\* round.
NoGet ==
    [status |-> "none", name |-> <<>>, rows |-> <<>>,
     file_name |-> [stem |-> "", range |-> <<>>]]

\* fetch did not call _get_earliest_timestamp.
NoSearch ==
    [ran |-> FALSE, timestamp |-> NoTimestamp, calls |-> 0, years |-> {},
     failed |-> {}]

StParked ==
    /\ now = 0 /\ tz = 0 /\ hist_start = 0
    /\ up_order = "asc" /\ up_keep = "newest"
    /\ base_file = NoFile
    /\ f_pc = "off" /\ f_error = "none"
    /\ latest_timestamp = 0 /\ current_time = 0
    /\ start_time = 0 /\ end_time = 0
    /\ get_result = NoGet /\ export = NoFile
    /\ pre_file = NoFile /\ last_df = <<>> /\ requests = 0
    /\ search = NoSearch
    /\ origin = [set |-> FALSE, file |-> NoFile]

PgLocals(pc) ==
    /\ pg_pc = pc
    /\ cursor = None
    /\ all_data = <<>>
    /\ page = 0
    /\ response = NoResponse
    /\ sent_cursor = None
    /\ fetched = <<>>
    /\ df = <<>>
    /\ output_file = NoFile

PgParked == PgLocals("off")

FgLocals(pc) ==
    /\ fg_pc = pc
    /\ fg_data = <<>>
    /\ fg_start = 0
    /\ fg_interval = "1d"
    /\ fg_daily = <<>>
    /\ fg_df = <<>>
    /\ fg_file = NoFile

FgParked == FgLocals("off")

PgInit == PgLocals("request") /\ StParked /\ FgParked

\* One requests.get of the loop, answered by the upstream with any of
\* `answers`.
PgRequestFrom(answers) ==
    /\ pg_pc = "request"
    /\ page < MaxRounds
    /\ page' = page + 1
    /\ sent_cursor' = CursorParam(cursor)
    /\ \E r \in answers :
          /\ response' = r
          /\ fetched' = IF r.status = "ok" THEN fetched \o r.list ELSE fetched
    /\ pg_pc' = "handle"
    /\ UNCHANGED <<cursor, all_data, df, output_file>>
    /\ UNCHANGED <<stvars, fgvars>>

PgRequest == PgRequestFrom(Responses)

\* response.raise_for_status() raises, or `data['retCode'] != 0`.
Raises_TransportOnly(r) == r.status = "transport"
Raises(r) == r.status \in {"transport", "api"}

\* The exception leaves the function.
PgRaise ==
    /\ pg_pc = "handle"
    /\ Raises(response)
    /\ pg_pc' = "raised"
    /\ UNCHANGED <<cursor, all_data, page, response, sent_cursor, fetched,
                   df, output_file>>
    /\ UNCHANGED <<stvars, fgvars>>

\* `if not records: break`
PgEmptyPage ==
    /\ pg_pc = "handle"
    /\ ~Raises(response)
    /\ response.list = <<>>
    /\ pg_pc' = "after"
    /\ UNCHANGED <<cursor, all_data, page, response, sent_cursor, fetched,
                   df, output_file>>
    /\ UNCHANGED <<stvars, fgvars>>

\* A non-empty page: extend, then break on an absent or repeated cursor,
\* otherwise adopt the cursor.
PgAppendPage ==
    /\ pg_pc = "handle"
    /\ ~Raises(response)
    /\ response.list # <<>>
    /\ all_data' = Extend(all_data, response.list)
    /\ IF EndOfData(response.nextPageCursor, cursor)
         THEN pg_pc' = "after" /\ cursor' = cursor
         ELSE pg_pc' = "request" /\ cursor' = response.nextPageCursor
    /\ UNCHANGED <<page, response, sent_cursor, fetched, df, output_file>>
    /\ UNCHANGED <<stvars, fgvars>>

\* After the loop: an empty frame without a file, or the normalised frame
\* written to the output csv.
PgFinish ==
    /\ pg_pc = "after"
    /\ pg_pc' = "returned"
    /\ IF all_data = <<>>
         THEN df' = <<>> /\ output_file' = NoFile
         ELSE \E s \in Normalized(all_data) : df' = s /\ output_file' = File(s)
    /\ UNCHANGED <<cursor, all_data, page, response, sent_cursor, fetched>>
    /\ UNCHANGED <<stvars, fgvars>>

PgNext == PgRequest \/ PgRaise \/ PgEmptyPage \/ PgAppendPage \/ PgFinish

SpecPg == PgInit /\ [][PgNext]_vars

\* The same driver against an upstream that serves an empty page, an
\* absent cursor or a repeated cursor (or fails) by round MaxRounds at the
\* latest.
PgRequestExhausting ==
    PgRequestFrom(IF page + 1 < MaxRounds
                    THEN Responses
                    ELSE { r \in Responses : Terminal(r, cursor) })

PgLoopExhausting ==
    PgRequestExhausting \/ PgRaise \/ PgEmptyPage \/ PgAppendPage

PgNextExhausting == PgLoopExhausting \/ PgFinish

\* The call leaves the code after the loop: the step PgFinish takes, by
\* its change of position alone.
PgReturns == pg_pc = "after" /\ pg_pc' = "returned"

\* The call keeps running: a round that can be taken is taken, and the code
\* after the loop runs to its return.
SpecPgFair ==
    /\ PgInit /\ [][PgNextExhausting]_vars
    /\ WF_vars(PgLoopExhausting) /\ WF_pg_pc(PgReturns)

(***************************************************************************)
(* Claims about the pagination driver.                                     *)
(***************************************************************************)
PgStopped == pg_pc \in {"after", "returned", "raised"}

\* C1: when the pagination loop has stopped, the accumulated list is the
\* concatenation, in request order, of the records of every page fetched
\* in the call (nothing dropped, duplicated or reordered).
C1_PaginationResult == PgStopped => all_data = fetched

\* The loop has stopped after three rounds that each served a page.
C1_Witness ==
    /\ pg_pc = "after"
    /\ page = 3
    /\ Len(all_data) >= 4
    /\ all_data = fetched

\* The decision of one round, written from the claim: an empty page stops
\* without appending; a non-empty page is appended and stops when the
\* returned cursor is absent or equals the cursor sent with the request;
\* otherwise the returned cursor is adopted and the loop continues.
C2_RoundDecision ==
    (pg_pc = "handle" /\ response.status = "ok") =>
        IF response.list = <<>>
          THEN pg_pc' = "after" /\ all_data' = all_data /\ cursor' = cursor
          ELSE /\ all_data' = all_data \o response.list
               /\ IF \/ response.nextPageCursor = ""
                     \/ response.nextPageCursor = sent_cursor
                    THEN pg_pc' = "after"
                    ELSE /\ pg_pc' = "request"
                         /\ cursor' = response.nextPageCursor

\* C2: every round decides as above; once the loop has stopped no further
\* request is issued; and against an upstream that eventually serves an
\* empty page, an absent cursor or a repeated cursor the call ends.
C2_PaginationTermination ==
    /\ [][C2_RoundDecision]_vars
    /\ [][PgStopped => (page' = page /\ PgStopped')]_vars
    /\ <>(pg_pc \in {"returned", "raised"})

\* The loop stopped because the upstream repeated the cursor it was sent.
C2_Witness ==
    /\ pg_pc = "after"
    /\ response.list # <<>>
    /\ response.nextPageCursor \in Cursors
    /\ response.nextPageCursor = sent_cursor

\* C19: a page request that fails (transport failure, or retCode != 0)
\* makes the call raise at once, whatever it has accumulated; the call
\* then issues no further request and writes no output file.
C19_PaginationFailure ==
    /\ [][ (pg_pc = "handle" /\ response.status \in {"transport", "api"}) =>
               pg_pc' = "raised" ]_vars
    /\ [][ (pg_pc = "raised" \/ pg_pc' = "raised") =>
               /\ pg_pc' = "raised"
               /\ page' = page
               /\ output_file' = NoFile ]_vars

\* The third request failed with retCode != 0 after two pages were
\* accumulated, and the call raised.
C19_Witness ==
    /\ pg_pc = "raised"
    /\ response.status = "api"
    /\ page = 3
    /\ Len(all_data) >= 2
    /\ output_file = NoFile

\* C3: the driver has a cap on its rounds: after the maximum number of
\* rounds it stops (PaginationLimitError) even when every page was
\* non-empty and carried a fresh cursor.  Stated for the cap MaxRounds:
\* after MaxRounds answered requests the loop is not about to request again.
C3_SafetyCap == ~(pg_pc = "request" /\ page >= MaxRounds)

(***************************************************************************)
(* ByBitDataManager (bybit_daily.py).                                      *)
(***************************************************************************)
Day == 24               \* 86400000 ms
WindowDays == 1000      \* start_time + (1000 * 86400000)
FetchLimit == 1000      \* "limit": 1000
EarliestYear == 2021    \* earliest_year = 2021

\* Days from 1970-01-01 to the civil date y-m-d (proleptic Gregorian), as
\* datetime.datetime(y, m, d) counts them.
DaysFromCivil(y, m, d) ==
    LET yy  == IF m <= 2 THEN y - 1 ELSE y
        era == yy \div 400
        yoe == yy - era * 400
        mp  == IF m > 2 THEN m - 3 ELSE m + 9
        doy == (153 * mp + 2) \div 5 + d - 1
        doe == yoe * 365 + yoe \div 4 - yoe \div 100 + doy
    IN  era * 146097 + doe - 719468

\* The civil year of day number `days`.
YearOfDay(days) ==
    LET z   == days + 719468
        era == z \div 146097
        doe == z - era * 146097
        yoe == (doe - doe \div 1460 + doe \div 36524 - doe \div 146096) \div 365
        doy == doe - (365 * yoe + yoe \div 4 - yoe \div 100)
        mp  == (5 * doy + 2) \div 153
        m   == IF mp < 10 THEN mp + 3 ELSE mp - 9
    IN  yoe + era * 400 + (IF m <= 2 THEN 1 ELSE 0)

IsLeap(y) == (y % 4 = 0 /\ y % 100 # 0) \/ y % 400 = 0

DaysInMonth(y, m) ==
    IF m = 2 THEN (IF IsLeap(y) THEN 29 ELSE 28)
    ELSE IF m \in {4, 6, 9, 11} THEN 30 ELSE 31

\* datetime.datetime(y, m, d) raises ValueError for these.
ValidDate(y, m, d) ==
    m \in 1..12 /\ d >= 1 /\ d <= DaysInMonth(y, m)

\* int(datetime.datetime(y, m, d, h).timestamp() * 1000): a naive datetime
\* is local time.
LocalTimestamp(y, m, d, h) == DaysFromCivil(y, m, d) * Day + h - tz

\* datetime.datetime.now().year
CurrentYear == YearOfDay((now + tz) \div Day)

(***************************************************************************)
(* The upstream kline endpoint: one daily candle at every 00:00 UTC from   *)
(* day hist_start up to the clock.  A request for [start, end] is answered *)
(* with the candles of that window, `limit` of them at most.               *)
(***************************************************************************)
Candle(d) == [timestamp |-> d * Day, close |-> 1]

CeilDiv(a, b) == (a + b - 1) \div b

\* The first and last candle day of the inclusive window [start, end].
FirstDayIn(start) == Max(hist_start, CeilDiv(start, Day))
LastDayIn(end) == Min(end, now) \div Day

\* result.list of a kline request.
Klines(start, end, limit) ==
    LET lo == FirstDayIn(start)
        hi == LastDayIn(end)
        n  == IF hi >= lo THEN Min(hi - lo + 1, limit) ELSE 0
        \* the kept candle days, ascending: kept[1] .. kept[n]
        first == IF up_keep = "oldest" THEN lo ELSE hi - n + 1
        asc  == [i \in 1..n |-> Candle(first + i - 1)]
        desc == [i \in 1..n |-> Candle(first + n - i)]
    IN  CASE up_order = "asc"  -> asc
          [] up_order = "desc" -> desc
          [] OTHER -> \* "desc_dup": the newest candle is listed twice
                      IF n >= 1 /\ n < limit THEN <<desc[1]>> \o desc ELSE desc

\* _probe_timestamp: does the upstream list a candle in
\* [timestamp, timestamp + 86400000] (limit 1)?  `fails` says that the
\* request fails (requests raising, or retCode != 0): the function logs the
\* failure and answers False.
_probe_timestamp(timestamp, fails) ==
    IF fails THEN FALSE
    ELSE Len(Klines(timestamp, timestamp + Day, 1)) > 0

(***************************************************************************)
(* _get_earliest_timestamp: the year walk, the month scan and the day      *)
(* scan.  `calls` counts the probe calls issued so far and `failing` holds *)
(* the numbers of the calls whose request fails.                           *)
(***************************************************************************)
\* The state of the search after the year walk: the year found
\* (NoTimestamp if none), the probe calls issued and the years probed.
Walked(year, calls, years) == [year |-> year, calls |-> calls, years |-> years]

RECURSIVE YearWalk(_, _, _, _)
YearWalk(year, calls, years, failing) ==
    IF year < EarliestYear THEN Walked(NoTimestamp, calls, years)
    ELSE IF _probe_timestamp(LocalTimestamp(year, 1, 1, 0),
                             (calls + 1) \in failing)
           THEN IF year > EarliestYear
                  THEN IF _probe_timestamp(LocalTimestamp(year - 1, 1, 1, 0),
                                           (calls + 2) \in failing)
                         THEN YearWalk(year - 1, calls + 2,
                                       years \cup {year, year - 1}, failing)
                         ELSE Walked(year, calls + 2,
                                     years \cup {year, year - 1})
                  ELSE Walked(year, calls + 1, years \cup {year})
           ELSE YearWalk(year - 1, calls + 1, years \cup {year}, failing)

\* The least element of a non-empty set of numbers.
Least(S) == CHOOSE x \in S : \A y \in S : x <= y

\* `for month in range(1, 13)`: the first month whose probe hits, and the
\* calls issued (the m-th probe of the scan is call number calls + m).
MonthScan(year, calls, failing) ==
    LET hits == { m \in 1..12 :
                    _probe_timestamp(LocalTimestamp(year, m, 1, 0),
                                     (calls + m) \in failing) }
    IN  IF hits = {} THEN [month |-> NoTimestamp, calls |-> calls + 12]
        ELSE [month |-> Least(hits), calls |-> calls + Least(hits)]

\* `for day in range(1, 32)`: day numbers the month does not have raise
\* ValueError and are passed over without a probe.
DayScan(year, month, calls, failing) ==
    LET hits == { d \in 1..31 :
                    /\ ValidDate(year, month, d)
                    /\ _probe_timestamp(LocalTimestamp(year, month, d, 0),
                                        (calls + d) \in failing) }
    IN  IF hits = {}
          THEN [day |-> NoTimestamp, calls |-> calls + DaysInMonth(year, month)]
          ELSE [day |-> Least(hits), calls |-> calls + Least(hits)]

\* The outcome of the search: the timestamp returned (NoTimestamp when the
\* function raises), the probe calls issued, the years probed and the
\* failed calls among those issued.
Searched(timestamp, calls, years, failing) ==
    [ran |-> TRUE, timestamp |-> timestamp, calls |-> calls, years |-> years,
     failed |-> failing \cap (1..calls)]

_get_earliest_timestamp_Floor(failing) ==
    Searched(LocalTimestamp(EarliestYear, 1, 1, 0), 0, {}, failing)
_get_earliest_timestamp(failing) ==
    LET w == YearWalk(CurrentYear, 0, {}, failing)
    IN  IF w.year = NoTimestamp
          THEN Searched(NoTimestamp, w.calls, w.years, failing)
        ELSE LET m == MonthScan(w.year, w.calls, failing)
             IN  IF m.month = NoTimestamp
                   THEN Searched(NoTimestamp, m.calls, w.years, failing)
                 ELSE LET d == DayScan(w.year, m.month, m.calls, failing)
                      IN  IF d.day = NoTimestamp
                            THEN Searched(NoTimestamp, d.calls, w.years,
                                          failing)
                            ELSE Searched(LocalTimestamp(w.year, m.month,
                                                         d.day, 0),
                                          d.calls, w.years, failing)

(***************************************************************************)
(* The Dataset Store: the csv at base_file and the merge fetch performs.   *)
(***************************************************************************)
\* int(df['timestamp'].max()) of a file that is read, None without rows.
LatestOf(file) ==
    IF file.exists /\ file.rows # <<>>
      THEN MaxTimestamp(file.rows, 1, Len(file.rows))
      ELSE NoTimestamp

\* _get_latest_timestamp: an exception of the read (`read_fails`) is logged
\* and None is returned.
_get_latest_timestamp(read_fails) ==
    IF read_fails THEN NoTimestamp ELSE LatestOf(base_file)

\* The write of one window: concat, drop_duplicates and sort_values when
\* the file exists, the frame as received when it does not.
Combined_Overwrite(file, frame) == frame
Combined(file, frame) ==
    IF file.exists
      THEN sort_values(drop_duplicates(file.rows \o frame))
      ELSE frame

(***************************************************************************)
(* The runs explored: the clock reads one of five instants, a few days     *)
(* into the floor year (one of them the midnight that is exactly one day   *)
(* after a candle) and again after one request window has gone by.         *)
(***************************************************************************)
FirstRunDay == 2
RunHour == 10
MaxFailingCall == 2

FloorDay == DaysFromCivil(EarliestYear, 1, 1)

RunDays ==
    { FloorDay + FirstRunDay,
      FloorDay + FirstRunDay + 1,
      FloorDay + FirstRunDay + WindowDays + 1,
      FloorDay + FirstRunDay + WindowDays + 3 }

ClockTimes ==
    { d * Day + RunHour : d \in RunDays }
        \cup { (FloorDay + FirstRunDay + 1) * Day }

TzOffsets == {0, 3}

\* The upstream's history starts before the floor year, or in February of
\* the floor year, or after every clock explored (the symbol has no candle
\* yet).
HistStarts == { FloorDay - 366, FloorDay + 40, FloorDay + 3 * WindowDays }

NoOrigin == [set |-> FALSE, file |-> NoFile]

StInit ==
    /\ now \in ClockTimes
    /\ tz \in TzOffsets
    /\ hist_start \in HistStarts
    /\ up_order \in {"asc", "desc", "desc_dup"}
    /\ up_keep \in {"newest", "oldest"}
    /\ base_file \in {NoFile, File(<<>>)}
    /\ f_pc = "idle" /\ f_error = "none"
    /\ latest_timestamp = NoTimestamp /\ current_time = 0
    /\ start_time = 0 /\ end_time = 0
    /\ get_result = NoGet /\ export = NoFile
    /\ pre_file = base_file /\ last_df = <<>> /\ requests = 0
    /\ search = NoSearch
    /\ origin = NoOrigin

Init == StInit /\ PgParked /\ FgParked

\* No command is running: fetch is not in its loop and the last get
\* command has ended.
NotFetching == f_pc \in {"idle", "done", "noop", "raised"}
AtRest == NotFetching /\ get_result = NoGet

\* Time passes between two runs of the program.
Tick ==
    /\ AtRest
    /\ \E t \in ClockTimes : t > now /\ now' = t
    /\ f_pc' = "idle" /\ f_error' = "none"
    /\ last_df' = <<>> /\ requests' = 0 /\ pre_file' = base_file
    /\ search' = NoSearch
    /\ origin' = NoOrigin
    /\ UNCHANGED <<tz, hist_start, up_order, up_keep, base_file,
                   latest_timestamp, current_time, start_time, end_time,
                   get_result, export>>
    /\ UNCHANGED <<pgvars, fgvars>>

\* `start_time` of fetch: the day after the latest stored candle, or the
\* earliest history found by probing.
SweepStart(latest, found) ==
    IF latest = NoTimestamp THEN found.timestamp ELSE latest + Day

\* The probe calls whose request may fail in one search.
FailingCalls == SUBSET (1..MaxFailingCall)

\* fetch, up to the loop: the latest stored timestamp (the read of an
\* existing file may fail), the clock, the start of the sweep
\* (_get_earliest_timestamp raises when it finds no history), and the
\* early return when nothing is due.  A call that follows a failed call on
\* the same clock is a restart of it.  `reads` and `failings` are the
\* outcomes of the read and of the probe requests that are explored;
\* `latest` and `found` are the values the two calls return.
FetchBeginWith(reads, failings) ==
    /\ AtRest
    /\ \E read_fails \in reads, failing \in failings :
         /\ read_fails => base_file.exists
         /\ \E latest \in { _get_latest_timestamp(read_fails) } :
            \E found \in { IF latest = NoTimestamp
                              THEN _get_earliest_timestamp(failing)
                              ELSE NoSearch } :
            LET start  == SweepStart(latest, found)
                raises == latest = NoTimestamp /\ start = NoTimestamp
            IN  /\ latest_timestamp' = latest
                /\ current_time' = now
                /\ search' = found
                /\ start_time' = start
                /\ f_pc' = IF raises THEN "raised"
                           ELSE IF start >= now THEN "noop" ELSE "loop"
                /\ f_error' = IF raises THEN "nohistory" ELSE "none"
    /\ end_time' = 0
    /\ pre_file' = base_file
    /\ last_df' = <<>>
    /\ requests' = 0
    /\ origin' = IF f_pc = "raised"
                   THEN (IF origin.set THEN origin
                         ELSE [set |-> TRUE, file |-> pre_file])
                   ELSE NoOrigin
    /\ UNCHANGED <<envvars, base_file, get_result, export>>
    /\ UNCHANGED <<pgvars, fgvars>>

\* A fetch call: the read of an existing file may fail, which
\* _get_latest_timestamp answers with None; the probe requests of the
\* search, if one runs, are answered.
FetchBegin == FetchBeginWith(BOOLEAN, {{}})

\* _fetch_data: the frame of one kline request.
_fetch_data(start, end) == Klines(start, end, FetchLimit)

\* `end_time = min(start_time + (1000 * 86400000), current_time)`
WindowEnd(start, current) == Min(start + WindowDays * Day, current)

\* `start_time = end_time + 86400000`
NextStart_AtEnd(end) == end
NextStart(end) == end + Day

\* One round of the loop of fetch: the request of one window, which may
\* fail (requests raising, or retCode != 0), the write of its frame, before
\* which the read of the existing file may fail, and the advance of
\* start_time.  `outcomes` are the outcomes of the round that are explored.
FetchWindowWith(outcomes) ==
    /\ f_pc = "loop"
    /\ start_time < current_time
    /\ LET end == WindowEnd(start_time, current_time)
       IN  /\ end_time' = end
           /\ requests' = requests + 1
           /\ \E outcome \in outcomes :
                IF outcome # "ok"
                  THEN /\ outcome = "read" =>
                            /\ base_file.exists
                            /\ _fetch_data(start_time, end) # <<>>
                       /\ f_pc' = "raised"
                       /\ f_error' = outcome
                       /\ UNCHANGED <<base_file, last_df, start_time>>
                  ELSE \E frame \in { _fetch_data(start_time, end) } :
                           /\ base_file' = IF frame # <<>>
                                             THEN File(Combined(base_file, frame))
                                             ELSE base_file
                           /\ last_df' = IF frame # <<>> THEN frame ELSE last_df
                           /\ start_time' = NextStart(end)
                           /\ f_pc' = IF NextStart(end) < current_time
                                        THEN "loop" ELSE "done"
                           /\ f_error' = "none"
    /\ UNCHANGED <<envvars, latest_timestamp, current_time, get_result,
                   export, pre_file, search, origin>>
    /\ UNCHANGED <<pgvars, fgvars>>

FetchWindow == FetchWindowWith({"ok", "transport", "api", "read"})

(***************************************************************************)
(* get: the range export.  A date text DDMMYYYY:HHMM is held as its        *)
(* fields; _parse_timestamp reads it as local time.                        *)
(***************************************************************************)
Text(d, m, y, h) == [day |-> d, month |-> m, year |-> y, hour |-> h]

GetTexts == { Text(2, 1, 2021, 0), Text(4, 1, 2021, 0), Text(31, 2, 2021, 0) }

\* strptime(timestamp, "%d%m%Y:%H%M") raises ValueError for these.
ValidText(t) == ValidDate(t.year, t.month, t.day) /\ t.hour \in 0..23

_parse_timestamp(t) == LocalTimestamp(t.year, t.month, t.day, t.hour)

\* df[(df['timestamp'] >= start_ts) & (df['timestamp'] <= end_ts)]
InRange(r, start_ts, end_ts) ==
    r.timestamp >= start_ts /\ r.timestamp <= end_ts

Filtered(rows, start_ts, end_ts) ==
    LET Keep(r) == InRange(r, start_ts, end_ts)
    IN  SelectSeq(rows, Keep)

\* The names of the files: self.base_file, and
\* f"dataset_daily_{start_time}--{end_time}.csv".
NoName == [stem |-> "", range |-> <<>>]
BaseName == [stem |-> "bybit_daily", range |-> <<>>]
ExportName_Base(start_time_text, end_time_text) == BaseName
ExportName(start_time_text, end_time_text) ==
    [stem |-> "dataset_daily", range |-> <<start_time_text, end_time_text>>]

\* The outcome of a get call that raises.
GetRaised(status, st, en) ==
    [status |-> status, name |-> <<st, en>>, rows |-> <<>>,
     file_name |-> NoName]

Get ==
    /\ AtRest
    /\ \E st \in GetTexts, en \in GetTexts :
         IF ~ValidText(st) \/ ~ValidText(en)
           THEN /\ get_result' = GetRaised("format", st, en)
                /\ export' = NoFile
                /\ base_file' = base_file
         ELSE IF ~base_file.exists
           THEN /\ get_result' = GetRaised("nofile", st, en)
                /\ export' = NoFile
                /\ base_file' = base_file
         ELSE LET filtered_df == Filtered(base_file.rows,
                                          _parse_timestamp(st),
                                          _parse_timestamp(en))
                  file_name == ExportName(st, en)  \* output_file
              IN  IF filtered_df = <<>>
                    THEN /\ get_result' = GetRaised("empty", st, en)
                         /\ export' = NoFile
                         /\ base_file' = base_file
                    ELSE /\ get_result' = [status |-> "ok",
                                           name |-> <<st, en>>,
                                           rows |-> filtered_df,
                                           file_name |-> file_name]
                         \* filtered_df.to_csv(output_file)
                         /\ base_file' = IF file_name = BaseName
                                           THEN File(filtered_df)
                                           ELSE base_file
                         /\ export' = IF file_name = BaseName
                                        THEN NoFile
                                        ELSE File(filtered_df)
    /\ UNCHANGED <<envvars, fetchvars, histvars>>
    /\ UNCHANGED <<pgvars, fgvars>>

\* The get command ends; its outcome and its export file are followed no
\* further.
GetEnd ==
    /\ get_result # NoGet
    /\ get_result' = NoGet
    /\ export' = NoFile
    /\ UNCHANGED <<envvars, base_file, fetchvars, histvars>>
    /\ UNCHANGED <<pgvars, fgvars>>

Next == Tick \/ FetchBegin \/ FetchWindow \/ Get \/ GetEnd

Spec == Init /\ [][Next]_vars

(***************************************************************************)
(* Claims about the Dataset Store and fetch.                               *)
(***************************************************************************)
StrictlyIncreasing(rows) ==
    \A i \in 1..(Len(rows) - 1) : rows[i].timestamp < rows[i + 1].timestamp

NonDecreasing(rows) ==
    \A i \in 1..(Len(rows) - 1) : rows[i].timestamp <= rows[i + 1].timestamp

\* C4: a fetch call in which a request failed leaves the persisted dataset
\* as it was before the call.
C4_NoPartialSuccess ==
    (f_pc = "raised" /\ f_error \in {"transport", "api"}) =>
        base_file = pre_file

\* C5: the persisted dataset is strictly increasing by timestamp after
\* every write of fetch.
C5_DatasetOrdered ==
    base_file.exists => StrictlyIncreasing(base_file.rows)

\* C6: merging the frame of the last write once more leaves the persisted
\* dataset identical.
C6_AppendIdempotent ==
    (f_pc \in {"loop", "done"} /\ last_df # <<>>) =>
        File(Combined(base_file, last_df)) = base_file

\* C7: no step of fetch or get removes a timestamp from the persisted
\* dataset (nor the dataset itself).
C7_NeverDeletes ==
    [][ \/ base_file' = base_file
        \/ /\ base_file.exists => base_file'.exists
           /\ TimestampsOf(base_file.rows) \subseteq TimestampsOf(base_file'.rows)
      ]_vars

\* A fetch call has merged new candles into a dataset that held rows.
C7_Witness ==
    /\ f_pc = "done"
    /\ pre_file.rows # <<>>
    /\ Len(base_file.rows) > Len(pre_file.rows)
    /\ TimestampsOf(pre_file.rows) \subseteq TimestampsOf(base_file.rows)

\* C8: after a fetch call that resumed from the latest stored timestamp L
\* and completed, every upstream candle with L < timestamp <= current time
\* is in the persisted dataset.
C8_GapFreeResumption ==
    (f_pc = "done" /\ latest_timestamp # NoTimestamp) =>
        \A d \in (latest_timestamp \div Day + 1)..(current_time \div Day) :
            d >= hist_start =>
                d * Day \in TimestampsOf(base_file.rows)

\* The dataset one fetch call without failures leaves, from `file` on the
\* present clock and upstream.
RECURSIVE Sweep(_, _)
Sweep(file, start) ==
    IF start >= now THEN file
    ELSE LET end   == WindowEnd(start, now)
             frame == _fetch_data(start, end)
         IN  Sweep(IF frame # <<>> THEN File(Combined(file, frame)) ELSE file,
                   NextStart(end))

Uninterrupted(file) ==
    LET latest == LatestOf(file)
        found  == IF latest = NoTimestamp THEN _get_earliest_timestamp({})
                                          ELSE NoSearch
        start  == SweepStart(latest, found)
    IN  IF latest = NoTimestamp /\ start = NoTimestamp THEN file
        ELSE Sweep(file, start)

\* C9: a fetch call that completes after failed calls on the same clock
\* and upstream leaves the dataset an uninterrupted call would have left.
C9_RestartEquivalence ==
    (f_pc = "done" /\ origin.set) => base_file = Uninterrupted(origin.file)

\* C10: get(start, end) with start <= end yields exactly the persisted
\* rows of the inclusive range, in ascending order, written to the export;
\* when no row is in the range it fails and writes no export.
C10_RangeQuery ==
    LET start_ts == _parse_timestamp(get_result.name[1])
        end_ts   == _parse_timestamp(get_result.name[2])
        inside   == { r \in Range(base_file.rows) :
                        start_ts <= r.timestamp /\ r.timestamp <= end_ts }
    IN  (get_result.status \in {"ok", "empty"} /\ start_ts <= end_ts) =>
            /\ Range(get_result.rows) = inside
            /\ NonDecreasing(get_result.rows)
            /\ inside = {} <=> get_result.status = "empty"
            /\ export = IF get_result.status = "ok"
                          THEN File(get_result.rows) ELSE NoFile

\* The dataset a fetch call found holds rows, and its latest timestamp plus
\* one day is at or after the clock the call read.
UpToDate ==
    /\ f_pc # "idle"
    /\ LatestOf(pre_file) # NoTimestamp
    /\ LatestOf(pre_file) + Day >= current_time

\* C22: a fetch call that finds the dataset up to date returns without a
\* kline request and without a probe, and leaves the persisted dataset as
\* it found it.
C22_UpToDateNoOp ==
    UpToDate =>
        /\ f_pc = "noop"
        /\ requests = 0 /\ search.calls = 0
        /\ base_file = pre_file

(***************************************************************************)
(* fetch with every request of the loop answered and every read before a   *)
(* write succeeding, the loop running whenever a window is due.            *)
(***************************************************************************)
\* A round of the loop whose request and whose read succeed.
FetchWindowAnswered == FetchWindowWith({"ok"})

LoopNext == Tick \/ FetchBegin \/ FetchWindowAnswered

\* A round of the loop has run.
WindowRequested == f_pc = "loop" /\ requests' = requests + 1

SpecLoopFair ==
    /\ Init
    /\ [][LoopNext]_vars
    /\ WF_requests(WindowRequested)

\* `start_time` when the call entered the loop.
FirstStart == SweepStart(latest_timestamp, search)

\* The rounds that cover the distance from the first start to the clock
\* the call read, each window but the last moving the start by the window
\* and one day.
RoundsDue == CeilDiv(current_time - FirstStart, (WindowDays + 1) * Day)

\* C23: every window of fetch starts after the end of the window before
\* it and satisfies start < end <= current time, with a length of at most
\* 1000 days; while a window is due the requests issued are fewer than the
\* rounds the distance from the first start to the current time needs, and
\* when every request is answered the loop ends, within that many requests.
C23_WindowProgress ==
    /\ [][ requests' = requests + 1 =>
              /\ requests > 0 => start_time > end_time
              /\ start_time < end_time'
              /\ end_time' <= current_time
              /\ end_time' - start_time <= WindowDays * Day ]_vars
    /\ [](f_pc = "loop" => start_time < current_time /\ requests < RoundsDue)
    /\ [](f_pc = "done" => start_time >= current_time /\ requests <= RoundsDue)
    /\ (f_pc = "loop") ~> (f_pc = "done")

\* A fetch call that resumed from stored candles has ended after two
\* windows, the first of them of full length.
C23_Witness ==
    /\ f_pc = "done"
    /\ latest_timestamp # NoTimestamp
    /\ requests = 2
    /\ current_time - FirstStart > WindowDays * Day

(***************************************************************************)
(* The start of fetch with reads and probe requests that may fail,         *)
(* explored on its own: the clocks of the runs above and one clock         *)
(* MaxYearsAhead years after the floor year; an upstream whose history     *)
(* starts before the floor year, on its second day, or in its February;    *)
(* a store with no file, with no row, or holding the newest candle.        *)
(***************************************************************************)
MaxYearsAhead == 42

ProbeClocks ==
    ClockTimes \cup
    { (DaysFromCivil(EarliestYear + MaxYearsAhead, 1, 1) + FirstRunDay) * Day
      + RunHour }

ProbeHistStarts == HistStarts \cup { FloorDay + 1 }

ProbeInit ==
    /\ now \in ProbeClocks
    /\ tz \in TzOffsets
    /\ hist_start \in ProbeHistStarts
    /\ up_order \in {"asc", "desc", "desc_dup"}
    /\ up_keep \in {"newest", "oldest"}
    /\ base_file \in {NoFile, File(<<>>)} \cup
                     { File(<<Candle(d)>>) :
                         d \in {now \div Day} \cap (hist_start..(now \div Day)) }
    /\ f_pc = "idle" /\ f_error = "none"
    /\ latest_timestamp = NoTimestamp /\ current_time = 0
    /\ start_time = 0 /\ end_time = 0
    /\ get_result = NoGet /\ export = NoFile
    /\ pre_file = base_file /\ last_df = <<>> /\ requests = 0
    /\ search = NoSearch
    /\ origin = NoOrigin
    /\ PgParked /\ FgParked

\* A fetch call whose read and whose probe requests may fail.
FetchBeginFailing == FetchBeginWith(BOOLEAN, FailingCalls)

ProbeNext == FetchBeginFailing

SpecProbe == ProbeInit /\ [][ProbeNext]_vars

\* The probes of a search without failed requests answer "T >= threshold"
\* at every instant up to the clock: a probe of T looks for a candle in
\* [T, T + Day], and the first candle is at hist_start * Day.
ProbeThreshold == hist_start * Day - Day

\* _get_earliest_timestamp ran, every probe request was answered, and the
\* threshold lies between the start of the floor year and the clock.
ThresholdSearch ==
    /\ search.ran /\ search.failed = {}
    /\ LocalTimestamp(EarliestYear, 1, 1, 0) <= ProbeThreshold
    /\ ProbeThreshold <= now

\* C11: when the probes answer a threshold predicate whose threshold lies
\* between the start of the floor year and now, _get_earliest_timestamp
\* returns the start of a local day within one day of the threshold.
C11_ProbingAccuracy ==
    ThresholdSearch =>
        /\ search.timestamp # NoTimestamp
        /\ (search.timestamp + tz) % Day = 0
        /\ search.timestamp - ProbeThreshold \in (0 - Day)..Day

\* C12: a search whose probes answer a threshold predicate issues at most
\* years_scanned + 12 + 31 probe calls, years_scanned being the number of
\* calendar years the year walk probed.
C12_ProbingCost ==
    (search.ran /\ search.failed = {}) =>
        search.calls <= Cardinality(search.years) + 12 + 31

\* C13: a search in which a probe request failed raises that failure out
\* of _get_earliest_timestamp and fetch.
C13_ProbeFailurePropagates ==
    (search.ran /\ search.failed # {}) =>
        f_pc = "raised" /\ f_error \in {"transport", "api"}

\* C18: a get call, whether it returns or raises, leaves the base dataset
\* as it was; a call that returns has written one other file, whose name
\* carries the two range bounds, and a call that raises has written none.
C18_RangeExportSeparate ==
    [][ (get_result = NoGet /\ get_result' # NoGet) =>
            /\ base_file' = base_file
            /\ IF get_result'.status = "ok"
                 THEN /\ export' = File(get_result'.rows)
                      /\ get_result'.file_name # BaseName
                      /\ get_result'.file_name.range = get_result'.name
                 ELSE export' = NoFile ]_vars

\* A get call has returned an export of some, not all, rows of the dataset.
C18_Witness ==
    /\ get_result.status = "ok"
    /\ export.exists
    /\ Len(export.rows) >= 1
    /\ Len(export.rows) < Len(base_file.rows)

\* C17: a fetch call issues probes only if the dataset it found held no
\* row; having found rows it issues no probe and starts from the latest
\* stored timestamp, however the read went.
C17_ProbeOnlyWhenEmpty ==
    (f_pc # "idle" /\ pre_file.rows # <<>>) =>
        /\ search.calls = 0
        /\ latest_timestamp = LatestOf(pre_file)

\* No probe of the first instant of a year, from the current year down
\* to the floor year, finds a candle.
NoYearHit ==
    \A y \in EarliestYear..CurrentYear :
        ~_probe_timestamp(LocalTimestamp(y, 1, 1, 0), FALSE)

\* C20: when no probe of the first instant of a year, from the current
\* year down to the floor year, reports data, _get_earliest_timestamp
\* raises its no-history error, and the fetch call issues no kline request
\* and leaves the dataset as it found it.
C20_NoHistory ==
    (search.ran /\ NoYearHit) =>
        /\ search.timestamp = NoTimestamp
        /\ f_pc = "raised" /\ f_error = "nohistory"
        /\ requests = 0
        /\ base_file = pre_file

\* A fetch call in the third year after the floor year probed three years
\* without a hit and raised the no-history error.
C20_Witness ==
    /\ f_pc = "raised" /\ f_error = "nohistory"
    /\ search.ran /\ search.calls = 3
    /\ Cardinality(search.years) = 3
    /\ NoYearHit

\* The upstream's first candle exists by now and lies in the floor year or
\* later, on a day other than 1 January.
FirstCandleInsideYear ==
    /\ hist_start * Day <= now
    /\ YearOfDay(hist_start) >= EarliestYear
    /\ hist_start # DaysFromCivil(YearOfDay(hist_start), 1, 1)

\* C21: when the earliest data lies in a month after January or on a day
\* after the first, a search whose probe requests are all answered returns
\* the start of that month and day (the local midnight of the day of the
\* first candle), not 1 January.
C21_ScansReachPast ==
    (search.ran /\ search.failed = {} /\ FirstCandleInsideYear) =>
        search.timestamp = hist_start * Day - tz

(***************************************************************************)
(* FearGreedDownloader (fear_greed_index.py).  The upstream answers with   *)
(* its whole history, one record per day; timestamps are hours here as     *)
(* everywhere (the source turns the upstream's seconds into milliseconds). *)
(***************************************************************************)
FourHours == 4          \* '4H'
NaN == -1               \* a fear_greed_index that is missing

\* Timestamp.floor('4H') and Timestamp.ceil('4H')
Floor4(t) == t - (t % FourHours)
Ceil4(t) == Floor4(t + FourHours - 1)

\* The greatest element of a non-empty set of numbers.
Greatest(S) == CHOOSE x \in S : \A y \in S : y <= x

\* pd.date_range(start=start_time, end=end_time, freq='4H')
date_range(start, end) ==
    [k \in 1..((end - start) \div FourHours + 1) |-> start + FourHours * (k - 1)]

\* One row of df.reindex(full_range, method='ffill') over an ascending
\* index: the value of the last row at or before `at`, NaN when there is
\* none.
FilledAt(rows, at) ==
    LET before == { i \in DOMAIN rows : rows[i].timestamp <= at }
    IN  [timestamp |-> at,
         fear_greed_index |-> IF before = {} THEN NaN
                              ELSE rows[Greatest(before)].fear_greed_index]

\* _resample_to_4h of a frame with at least one row.
_resample_to_4h(rows) ==
    LET first      == Floor4(MinTimestamp(rows, 1, Len(rows)))  \* start_time
        last       == Ceil4(MaxTimestamp(rows, 1, Len(rows)))   \* end_time
        full_range == date_range(first, last)
    IN  [k \in DOMAIN full_range |-> FilledAt(rows, full_range[k])]

\* The records the upstream can list: a value for midnight of two days and
\* for one hour past midnight.
FgTimes == {0, Day, Day + 1}
FgValues == {5, 7}
FgRecords == { [timestamp |-> t, value |-> v] : t \in FgTimes, v \in FgValues }
MaxFgLen == 2
FgData == SeqsUpTo(FgRecords, MaxFgLen)
FgStarts == {0, Day}

\* df[df["timestamp"] >= start_time], then the columns timestamp and value,
\* value renamed.
FgSelected(data, start) ==
    LET Keep(r) == r.timestamp >= start
        kept    == SelectSeq(data, Keep)
    IN  [k \in 1..Len(kept) |->
            [timestamp |-> kept[k].timestamp, fear_greed_index |-> kept[k].value]]

\* download_fear_greed_index(start_date, interval): the request, which may
\* fail, and all that follows it.
FgDownload ==
    /\ fg_pc = "call"
    /\ \E status \in {"ok", "transport"}, data \in FgData,
          start \in FgStarts, interval \in {"1d", "4h"} :
         /\ fg_start' = start
         /\ fg_interval' = interval
         /\ IF status # "ok"
              THEN /\ fg_pc' = "raised"
                   /\ fg_data' = <<>> /\ fg_daily' = <<>>
                   /\ fg_df' = <<>> /\ fg_file' = NoFile
              ELSE /\ fg_pc' = "returned"
                   /\ fg_data' = data
                   /\ IF data = <<>>
                        THEN /\ fg_daily' = <<>>
                             /\ fg_df' = <<>> /\ fg_file' = NoFile
                        ELSE \E s \in Normalized(FgSelected(data, start)) :
                               /\ fg_daily' = s
                               /\ IF s = <<>>
                                    THEN fg_df' = s /\ fg_file' = NoFile
                                    ELSE LET out == IF interval = "4h"
                                                      THEN _resample_to_4h(s)
                                                      ELSE s
                                         IN  fg_df' = out /\ fg_file' = File(out)
    /\ UNCHANGED <<pgvars, stvars>>

(***************************************************************************)
(* Normalisation explored on its own: the code after the pagination loop   *)
(* on any accumulated list of up to MaxNormLen records over two timestamps *)
(* and two values (received as one page that ended the loop), and the      *)
(* fear and greed download.                                               *)
(***************************************************************************)
MaxNormLen == 3
NormRecords == { [timestamp |-> t, value |-> v] : t \in 1..2, v \in 1..2 }

NormInit ==
    /\ pg_pc = "after"
    /\ all_data \in SeqsUpTo(NormRecords, MaxNormLen)
    /\ fetched = all_data
    /\ response = [status |-> "ok", list |-> all_data, nextPageCursor |-> ""]
    /\ page = 1
    /\ cursor = None /\ sent_cursor = None
    /\ df = <<>> /\ output_file = NoFile
    /\ FgLocals("call")
    /\ StParked

NormNext == PgFinish \/ FgDownload

SpecNorm == NormInit /\ [][NormNext]_vars

\* A frame in which a timestamp returns after another one came between.
Scattered(rows) ==
    \E i, j, k \in DOMAIN rows :
        /\ i < j /\ j < k
        /\ rows[i].timestamp = rows[k].timestamp
        /\ rows[j].timestamp < rows[i].timestamp

\* C14: the series returned by download_open_interest, download_funding_rate
\* and download_fear_greed_index (interval 1d) is in ascending order of
\* timestamp and no two of its rows carry the same timestamp.
C14_NormalizationInvariant ==
    /\ pg_pc = "returned" => StrictlyIncreasing(df)
    /\ (fg_pc = "returned" /\ fg_interval = "1d") => StrictlyIncreasing(fg_df)

\* Both downloads returned two rows from records that were out of order
\* and repeated a timestamp.
C14_Witness ==
    /\ pg_pc = "returned" /\ Scattered(all_data) /\ Len(df) = 2
    /\ fg_pc = "returned" /\ fg_interval = "1d"
    /\ Len(fg_data) = 2 /\ fg_data[1].timestamp > fg_data[2].timestamp
    /\ Len(fg_df) = 2

\* C15: the row kept for a timestamp carries the value of the last record
\* of the accumulated list that carries this timestamp.
C15_LastSeenWins ==
    pg_pc = "returned" =>
        \A k \in DOMAIN df :
            LET last == Greatest({ i \in DOMAIN all_data :
                                     all_data[i].timestamp = df[k].timestamp })
            IN  df[k].value = all_data[last].value

\* C16: _resample_to_4h returns exactly one row for each 4-hour boundary
\* from the first timestamp of the daily series, floored, through the last
\* one, ceiled; the value of a row is the value of the latest row of the
\* series at or before the boundary, and no value is absent from the series.
C16_Resample ==
    (fg_pc = "returned" /\ fg_interval = "4h" /\ fg_daily # <<>>) =>
        LET lo   == Floor4(fg_daily[1].timestamp)
            hi   == Ceil4(fg_daily[Len(fg_daily)].timestamp)
            grid == { t \in lo..hi : t % FourHours = 0 }
        IN  /\ StrictlyIncreasing(fg_df)
            /\ TimestampsOf(fg_df) = grid
            /\ \A k \in DOMAIN fg_df :
                 \E i \in DOMAIN fg_daily :
                    /\ fg_daily[i].timestamp <= fg_df[k].timestamp
                    /\ \A j \in DOMAIN fg_daily :
                          fg_daily[j].timestamp <= fg_df[k].timestamp =>
                              fg_daily[j].timestamp <= fg_daily[i].timestamp
                    /\ fg_df[k].fear_greed_index = fg_daily[i].fear_greed_index

====
